---- MODULE Spec2Model ----
(***************************************************************************)
(* Model of gpu-info's retrieve_gpu_info_via_vk (src/src/lib.rs).          *)
(*                                                                         *)
(* One call of the function is a run of the state machine: the host (the   *)
(* Vulkan loader and driver, and the build's overflow-check setting) is    *)
(* fixed in Init, and each action is one statement group of the function.  *)
(*                                                                         *)
(* Number representation.  TLC integers are 32 bits wide, so the u32 and   *)
(* u64 values of the program are kept at their full width as limbs:        *)
(*   u32  = <<hi, lo>>        hi, lo 16 bits each                          *)
(*   u64  = <<top, mid, low>> top 22 bits, mid 22 bits, low 20 bits        *)
(* Strings that are decoded or formatted are sequences: a device name is   *)
(* its sequence of UTF-8 bytes, a driver version its sequence of           *)
(* one-character strings.                                                  *)
(***************************************************************************)
EXTENDS Integers, Sequences, FiniteSets, TLC

\* host              what the loader and the driver answer on this machine
\*                   (lines 58, 68, 71, 83, 84) and whether the build checks
\*                   integer overflow
\* pc                position in the function body (lines 57-139)
\* entry             the loaded API, line 58: "none", "live" or "released"
\* instance          the VkInstance, line 68: "none", "live" or "destroyed"
\* physical_devices  the enumerated handles, line 71
\* idx               position of the for loop's iterator, line 82
\* gpus              the records collected, line 80
\* result            the value the call returned, or that it panicked
\* calls             the native calls made so far, in order
VARIABLES host, pc, entry, instance, physical_devices, idx, gpus, result, calls

vars == <<host, pc, entry, instance, physical_devices, idx, gpus, result, calls>>

----------------------------------------------------------------------------
(* Bounds *)

\* Largest number of adapters the driver enumerates.
MaxAdapters == 2

\* Length of the device_name buffer (VK_MAX_PHYSICAL_DEVICE_NAME_SIZE, scaled).
NameBufLen == 2

\* Length of the memory_heaps array (VK_MAX_MEMORY_HEAPS, scaled).
HeapSlots == 2

----------------------------------------------------------------------------
(* Machine integers *)

Pow2_16 == 2 ^ 16
Pow2_20 == 2 ^ 20
Pow2_22 == 2 ^ 22

\* v >> n on a u32 held as <<hi, lo>>, for the shift amounts 0 < n < 32.
Pow2(n) == IF n = 0 THEN 1 ELSE 2 ^ n

U32Shr(v, n) ==
    IF n >= 16
    THEN <<0, v[1] \div Pow2(n - 16)>>
    ELSE <<v[1] \div Pow2(n), ((v[1] % Pow2(n)) * Pow2(16 - n) + v[2] \div Pow2(n)) % Pow2_16>>

\* v & mask for a mask of the form 2^k - 1 with k <= 16; the result fits an Int.
U32AndLowMask(v, mask) == v[2] % (mask + 1)

\* 0x3FF and 0xFFF
Mask3FF == 1023
MaskFFF == 4095

\* u64 zero and wrapping addition, with the carry out of bit 63.
U64Zero == <<0, 0, 0>>

U64Add(a, b) ==
    LET l == a[3] + b[3]
        m == a[2] + b[2] + l \div Pow2_20
        t == a[1] + b[1] + m \div Pow2_22
    IN  [val |-> <<t % Pow2_22, m % Pow2_22, l % Pow2_20>>,
         overflow |-> t \div Pow2_22 > 0]

\* vram_size / (1024 * 1024): drops the low 20 bits; the quotient is <<top, mid>>,
\* i.e. top * 2^22 + mid.
U64DivMiB(a) == <<a[1], a[2]>>

----------------------------------------------------------------------------
(* Error *)

VulkanNotSupported == [kind |-> "VulkanNotSupported", detail |-> ""]

VulkanOperationFailed(msg) == [kind |-> "VulkanOperationFailed", detail |-> msg]

is_vulkan_not_supported_swapped(e) == e.kind = "VulkanOperationFailed"

is_vulkan_not_supported(e) == e.kind = "VulkanNotSupported"

\* e.to_string() of a native result code.
VkResultToString(code) ==
    CASE code = "ERROR_INITIALIZATION_FAILED" -> "Initialization of an object has failed"
      [] code = "ERROR_INCOMPATIBLE_DRIVER"   -> "Unable to find a Vulkan driver"
      [] code = "ERROR_OUT_OF_HOST_MEMORY"    -> "A host memory allocation has failed"
      [] OTHER                                -> code

----------------------------------------------------------------------------
(* Property normalisation (the body of the for loop) *)

\* "Unknown" as UTF-8 bytes.
UnknownBytes == <<85, 110, 107, 110, 111, 119, 110>>

\* CStr::from_ptr: the bytes from the pointer up to, not including, the first NUL.
RECURSIVE CStrFromPtr(_)
CStrFromPtr(mem) ==
    IF mem = <<>> \/ Head(mem) = 0 THEN <<>>
    ELSE <<Head(mem)>> \o CStrFromPtr(Tail(mem))

IsCont(b) == b \in 128..191

\* CStr::to_str succeeds exactly on well-formed UTF-8.
RECURSIVE Utf8Valid(_)
Utf8Valid(s) ==
    IF s = <<>> THEN TRUE
    ELSE LET b == Head(s)
             n == Len(s)
             rest(k) == SubSeq(s, k + 1, n)
         IN  IF b < 128 THEN Utf8Valid(Tail(s))
             ELSE IF b \in 194..223
                  THEN n >= 2 /\ IsCont(s[2]) /\ Utf8Valid(rest(2))
             ELSE IF b = 224
                  THEN n >= 3 /\ s[2] \in 160..191 /\ IsCont(s[3]) /\ Utf8Valid(rest(3))
             ELSE IF b \in (225..236) \cup (238..239)
                  THEN n >= 3 /\ IsCont(s[2]) /\ IsCont(s[3]) /\ Utf8Valid(rest(3))
             ELSE IF b = 237
                  THEN n >= 3 /\ s[2] \in 128..159 /\ IsCont(s[3]) /\ Utf8Valid(rest(3))
             ELSE IF b = 240
                  THEN n >= 4 /\ s[2] \in 144..191 /\ IsCont(s[3]) /\ IsCont(s[4])
                       /\ Utf8Valid(rest(4))
             ELSE IF b \in 241..243
                  THEN n >= 4 /\ IsCont(s[2]) /\ IsCont(s[3]) /\ IsCont(s[4])
                       /\ Utf8Valid(rest(4))
             ELSE IF b = 244
                  THEN n >= 4 /\ s[2] \in 128..143 /\ IsCont(s[3]) /\ IsCont(s[4])
                       /\ Utf8Valid(rest(4))
             ELSE FALSE

\* device_name: the buffer is read through a raw pointer, so a buffer without a
\* NUL is read on into the memory that follows it (properties.after).
DeviceName(properties) ==
    LET c == CStrFromPtr(properties.device_name \o properties.after)
    IN  IF Utf8Valid(c) THEN c ELSE UnknownBytes

VendorNameSwapped(vendor_id) ==
    CASE vendor_id = 32902 -> "NVIDIA"
      [] vendor_id = 4318  -> "Intel"
      [] vendor_id = 4098  -> "AMD"
      [] OTHER             -> "Unknown"

\* 0x8086 = 32902, 0x10DE = 4318, 0x1002 = 4098
VendorName(vendor_id) ==
    CASE vendor_id = 32902 -> "Intel"
      [] vendor_id = 4318  -> "NVIDIA"
      [] vendor_id = 4098  -> "AMD"
      [] OTHER             -> "Unknown"

\* Display of an unsigned integer: its decimal digits, no padding.
Digit(d) == CASE d = 0 -> "0" [] d = 1 -> "1" [] d = 2 -> "2" [] d = 3 -> "3"
              [] d = 4 -> "4" [] d = 5 -> "5" [] d = 6 -> "6" [] d = 7 -> "7"
              [] d = 8 -> "8" [] d = 9 -> "9"

RECURSIVE ToDecimal(_)
ToDecimal(n) ==
    IF n < 10 THEN <<Digit(n)>> ELSE ToDecimal(n \div 10) \o <<Digit(n % 10)>>

DriverVersionShift20(v) ==
    ToDecimal(U32AndLowMask(U32Shr(v, 20), Mask3FF)) \o <<".">>
    \o ToDecimal(U32AndLowMask(U32Shr(v, 12), Mask3FF)) \o <<".">>
    \o ToDecimal(U32AndLowMask(v, MaskFFF))

\* format!("{}.{}.{}", (v >> 22) & 0x3FF, (v >> 12) & 0x3FF, v & 0xFFF)
DriverVersion(v) ==
    ToDecimal(U32AndLowMask(U32Shr(v, 22), Mask3FF)) \o <<".">>
    \o ToDecimal(U32AndLowMask(U32Shr(v, 12), Mask3FF)) \o <<".">>
    \o ToDecimal(U32AndLowMask(v, MaskFFF))

\* vk::PhysicalDeviceType: OTHER = 0, INTEGRATED_GPU = 1, DISCRETE_GPU = 2,
\* VIRTUAL_GPU = 3, CPU = 4
DeviceKind(device_type) ==
    CASE device_type = 1 -> "Integrated"
      [] device_type = 2 -> "Discrete"
      [] device_type = 3 -> "Virtual"
      [] device_type = 4 -> "CPU"
      [] OTHER           -> "Unknown"

\* vk::MemoryHeapFlags::DEVICE_LOCAL = 0x1; contains() tests that bit.
DeviceLocal(heap) == heap.flags % 2 = 1

Min(a, b) == IF a < b THEN a ELSE b

\* .iter().take(memory_heap_count as usize)
TakenHeaps(memory_properties) ==
    SubSeq(memory_properties.memory_heaps, 1,
           Min(memory_properties.memory_heap_count, Len(memory_properties.memory_heaps)))

\* .filter(device local).map(size).sum::<u64>(): a left fold of + from 0.  The
\* fold records whether any addition carried out of 64 bits.
RECURSIVE SumDeviceLocal(_, _)
SumDeviceLocal(heaps, acc) ==
    IF heaps = <<>> THEN acc
    ELSE LET h == Head(heaps)
             s == U64Add(acc.val, h.size)
         IN  IF DeviceLocal(h)
             THEN SumDeviceLocal(Tail(heaps),
                                 [val |-> s.val, overflow |-> acc.overflow \/ s.overflow])
             ELSE SumDeviceLocal(Tail(heaps), acc)

VramSize(properties) ==
    SumDeviceLocal(TakenHeaps(properties), [val |-> U64Zero, overflow |-> FALSE])

\* The GPU record built for one adapter.
MakeGPU(properties) ==
    [kind           |-> DeviceKind(properties.device_type),
     name           |-> DeviceName(properties),
     vendor         |-> VendorName(properties.vendor_id),
     driver_version |-> DriverVersion(properties.driver_version),
     vram           |-> U64DivMiB(VramSize(properties).val),
     clock_speed    |-> "None",
     temperature    |-> "None"]

----------------------------------------------------------------------------
(* The host: what the loader and the driver answer, and how the crate is built *)

\* Bytes a device-name buffer is filled from: NUL, 'A', the two bytes of a
\* two-byte UTF-8 character (0xC3 0xA9) and a byte no UTF-8 text contains (0xFF).
NameBytes == {0, 65, 195, 169, 255}

RECURSIVE SeqsOfLen(_, _)
SeqsOfLen(S, n) ==
    IF n = 0 THEN {<<>>}
    ELSE {<<x>> \o t : x \in S, t \in SeqsOfLen(S, n - 1)}

SeqsUpTo(S, n) == UNION {SeqsOfLen(S, k) : k \in 0..n}

HasNul(buf) == \E i \in 1..Len(buf) : buf[i] = 0

\* Memory that follows a device-name buffer, up to its first NUL.
AfterChoices == {<<0>>, <<65, 0>>, <<255, 0>>}

\* Byte sizes as u64 limbs.
Bytes1MiBMinus1 == <<0, 0, Pow2_20 - 1>>
Bytes1MiBPlus1  == <<0, 1, 1>>
Bytes256MiB     == <<0, 256, 0>>
Bytes4GiB       == <<0, 4096, 0>>
Bytes8GiB       == <<0, 8192, 0>>
Bytes2Pow63     == <<Pow2_22 \div 2, 0, 0>>
BytesU64Max     == <<Pow2_22 - 1, Pow2_22 - 1, Pow2_20 - 1>>

Heap(size, flags) == [size |-> size, flags |-> flags]

\* Flags: 0 none, 1 DEVICE_LOCAL, 2 MULTI_INSTANCE, 3 both.
HeapChoices ==
    {Heap(sz, fl) : sz \in {Bytes1MiBMinus1, Bytes1MiBPlus1, Bytes2Pow63}, fl \in {0, 1, 3}}

Pad(heaps) ==
    heaps \o [i \in 1..(HeapSlots - Len(heaps)) |-> Heap(Bytes4GiB, 1)]

\* One discrete NVIDIA adapter with a single device-local heap of 8 GiB.  The
\* slots past memory_heap_count hold stale device-local entries.
BaseAdapter ==
    [device_name       |-> <<65>> \o [i \in 1..(NameBufLen - 1) |-> 0],
     after             |-> <<0>>,
     vendor_id         |-> 4318,
     driver_version    |-> <<640, 20483>>,
     device_type       |-> 2,
     memory_heap_count |-> 1,
     memory_heaps      |-> Pad(<<Heap(Bytes8GiB, 1)>>)]

\* An integrated Intel adapter: 4 GiB device-local, 256 MiB host-visible.
IntelAdapter ==
    [BaseAdapter EXCEPT !.vendor_id = 32902, !.device_type = 1,
                        !.memory_heap_count = 2,
                        !.memory_heaps =
                            SubSeq(<<Heap(Bytes4GiB, 1), Heap(Bytes256MiB, 0)>>
                                   \o Pad(<<>>), 1, HeapSlots)]

\* A software rasteriser: empty name, unlisted vendor, no heaps.
CpuAdapter ==
    [BaseAdapter EXCEPT !.device_name = [i \in 1..NameBufLen |-> 0],
                        !.vendor_id = 65541, !.device_type = 4,
                        !.driver_version = <<0, 1>>,
                        !.memory_heap_count = 0]

CuratedAdapters == {BaseAdapter, IntelAdapter, CpuAdapter}

NameVariants ==
    {[BaseAdapter EXCEPT !.device_name = b, !.after = a] :
        b \in SeqsOfLen(NameBytes, NameBufLen), a \in AfterChoices}

\* 0x0000, 0x1234, 0x1002, 0x10DE, 0x10DF, 0x8086, 0x18086
VendorIds == {0, 4660, 4098, 4318, 4319, 32902, 98438}

VendorVariants == {[BaseAdapter EXCEPT !.vendor_id = v] : v \in VendorIds}

\* Packed versions: every pairing of these halves, which covers major and minor
\* at 0 and at 1023, patch at 0 and at 4095, and (10 << 22) | (5 << 12) | 3.
VersionHi == {0, 63, 64, 640, 32768, 65535}
VersionLo == {0, 3, 4095, 4096, 20483, 65535}

VersionVariants ==
    {[BaseAdapter EXCEPT !.driver_version = <<h, l>>] : h \in VersionHi, l \in VersionLo}

DeviceTypes == {0, 1, 2, 3, 4, 5}

TypeVariants == {[BaseAdapter EXCEPT !.device_type = t] : t \in DeviceTypes}

MemoryVariants ==
    {[BaseAdapter EXCEPT !.memory_heap_count = n, !.memory_heaps = hs] :
        n \in 0..(HeapSlots + 1), hs \in SeqsOfLen(HeapChoices, HeapSlots)}

VariedAdapters ==
    {a \in NameVariants : ~HasNul(a.device_name) \/ a.after = <<0>>}
    \cup VendorVariants \cup VersionVariants \cup TypeVariants \cup MemoryVariants

CreateResults == {"SUCCESS", "ERROR_INCOMPATIBLE_DRIVER"}

EnumerateResults == {"SUCCESS", "ERROR_INITIALIZATION_FAILED"}

MakeHost(l, c, e, as, oc) ==
    [load |-> l, create |-> c, enumerate |-> e, adapters |-> as, overflow_checks |-> oc]

Hosts ==
    {MakeHost(l, c, e, as, oc) :
        l \in BOOLEAN, c \in CreateResults, e \in EnumerateResults,
        as \in SeqsUpTo(CuratedAdapters, MaxAdapters), oc \in BOOLEAN}
    \cup
    {MakeHost(TRUE, "SUCCESS", "SUCCESS", <<a>>, oc) :
        a \in VariedAdapters, oc \in BOOLEAN}

----------------------------------------------------------------------------
(* retrieve_gpu_info_via_vk *)

Pending == [tag |-> "Pending"]

Ok(v) == [tag |-> "Ok", value |-> v]

Err(e) == [tag |-> "Err", error |-> e]

Panicked == [tag |-> "Panic"]

Call(fn, device) == [fn |-> fn, device |-> device]

Init ==
    /\ host \in Hosts
    /\ pc = "load"
    /\ entry = "none"
    /\ instance = "none"
    /\ physical_devices = <<>>
    /\ idx = 1
    /\ gpus = <<>>
    /\ result = Pending
    /\ calls = <<>>

\* What leaving the function does to a live local.  Dropping the Entry unloads
\* the library it loaded.  ash's Instance has no Drop: only destroy_instance
\* destroys it, and the function never calls it.
DropEntry(e) == IF e = "live" THEN "released" ELSE e

DropInstance(i) == i

\* Leave the function with outcome r: every live local is dropped.
Leave(r) ==
    /\ result' = r
    /\ entry' = DropEntry(entry)
    /\ instance' = DropInstance(instance)
    /\ pc' = "done"

\* line 58, loader found
LoadOk ==
    /\ pc = "load"
    /\ host.load
    /\ calls' = Append(calls, Call("Entry::load", 0))
    /\ entry' = "live"
    /\ pc' = "create"
    /\ UNCHANGED <<host, instance, physical_devices, idx, gpus, result>>

\* line 58, loader missing: ? returns VulkanNotSupported
LoadFail ==
    /\ pc = "load"
    /\ ~host.load
    /\ calls' = Append(calls, Call("Entry::load", 0))
    /\ Leave(Err(VulkanNotSupported))
    /\ UNCHANGED <<host, physical_devices, idx, gpus>>

\* lines 59-69, instance created
CreateInstanceOk ==
    /\ pc = "create"
    /\ host.create = "SUCCESS"
    /\ calls' = Append(calls, Call("create_instance", 0))
    /\ instance' = "live"
    /\ pc' = "enumerate"
    /\ UNCHANGED <<host, entry, physical_devices, idx, gpus, result>>

CreateInstanceFailContinues ==
    /\ pc = "create"
    /\ host.create # "SUCCESS"
    /\ calls' = Append(calls, Call("create_instance", 0))
    /\ pc' = "enumerate"
    /\ UNCHANGED <<host, entry, instance, physical_devices, idx, gpus, result>>

\* lines 68-69, native error
CreateInstanceFail ==
    /\ pc = "create"
    /\ host.create # "SUCCESS"
    /\ calls' = Append(calls, Call("create_instance", 0))
    /\ Leave(Err(VulkanOperationFailed(VkResultToString(host.create))))
    /\ UNCHANGED <<host, physical_devices, idx, gpus>>

\* lines 71-72, adapters listed; a handle is the adapter's position in the
\* driver's table
EnumerateOk ==
    /\ pc = "enumerate"
    /\ host.enumerate = "SUCCESS"
    /\ calls' = Append(calls, Call("enumerate_physical_devices", 0))
    /\ physical_devices' = [i \in 1..Len(host.adapters) |-> i]
    /\ pc' = "check"
    /\ UNCHANGED <<host, entry, instance, idx, gpus, result>>

EnumerateFailOtherKind ==
    /\ pc = "enumerate"
    /\ host.enumerate # "SUCCESS"
    /\ calls' = Append(calls, Call("enumerate_physical_devices", 0))
    /\ Leave(Err([kind |-> "OpenGLQueryFailed", detail |-> ""]))
    /\ UNCHANGED <<host, physical_devices, idx, gpus>>

\* lines 71-72, native error
EnumerateFail ==
    /\ pc = "enumerate"
    /\ host.enumerate # "SUCCESS"
    /\ calls' = Append(calls, Call("enumerate_physical_devices", 0))
    /\ Leave(Err(VulkanOperationFailed(VkResultToString(host.enumerate))))
    /\ UNCHANGED <<host, physical_devices, idx, gpus>>

NoDevicesIsSuccess ==
    /\ pc = "check"
    /\ physical_devices = <<>>
    /\ Leave(Ok(<<>>))
    /\ UNCHANGED <<host, physical_devices, idx, gpus, calls>>

\* lines 74-78
NoDevices ==
    /\ pc = "check"
    /\ physical_devices = <<>>
    /\ Leave(Err(VulkanOperationFailed("No Vulkan-compatible GPUs found.")))
    /\ UNCHANGED <<host, physical_devices, idx, gpus, calls>>

\* lines 74, 80
SomeDevices ==
    /\ pc = "check"
    /\ physical_devices # <<>>
    /\ gpus' = <<>>
    /\ idx' = 1
    /\ pc' = "loop"
    /\ UNCHANGED <<host, entry, instance, physical_devices, result, calls>>

Queries(device) ==
    <<Call("get_physical_device_properties", device),
      Call("get_physical_device_memory_properties", device)>>

LoopBodyDedup ==
    /\ pc = "loop"
    /\ idx <= Len(physical_devices)
    /\ LET device     == physical_devices[idx]
           properties == host.adapters[device]
           gpu        == MakeGPU(properties)
       IN  /\ ~(VramSize(properties).overflow /\ host.overflow_checks)
           /\ calls' = calls \o Queries(device)
           /\ gpus' = IF \E i \in 1..Len(gpus) : gpus[i] = gpu
                      THEN gpus ELSE Append(gpus, gpu)
    /\ idx' = idx + 1
    /\ UNCHANGED <<host, pc, entry, instance, physical_devices, result>>

\* lines 82-136, one iteration
LoopBody ==
    /\ pc = "loop"
    /\ idx <= Len(physical_devices)
    /\ LET device     == physical_devices[idx]
           properties == host.adapters[device]
       IN  /\ ~(VramSize(properties).overflow /\ host.overflow_checks)
           /\ calls' = calls \o Queries(device)
           /\ gpus' = Append(gpus, MakeGPU(properties))
    /\ idx' = idx + 1
    /\ UNCHANGED <<host, pc, entry, instance, physical_devices, result>>

\* lines 116-122 with overflow checks on: the sum panics and the call unwinds
LoopPanic ==
    /\ pc = "loop"
    /\ idx <= Len(physical_devices)
    /\ LET device     == physical_devices[idx]
           properties == host.adapters[device]
       IN  /\ VramSize(properties).overflow /\ host.overflow_checks
           /\ calls' = calls \o Queries(device)
    /\ Leave(Panicked)
    /\ UNCHANGED <<host, physical_devices, idx, gpus>>

\* line 138
ReturnOk ==
    /\ pc = "loop"
    /\ idx > Len(physical_devices)
    /\ Leave(Ok(gpus))
    /\ UNCHANGED <<host, physical_devices, idx, gpus, calls>>

Next ==
    \/ LoadOk
    \/ LoadFail
    \/ CreateInstanceOk
    \/ CreateInstanceFail
    \/ EnumerateOk
    \/ EnumerateFail
    \/ NoDevices
    \/ SomeDevices
    \/ LoopBody
    \/ LoopPanic
    \/ ReturnOk

Spec == Init /\ [][Next]_vars

----------------------------------------------------------------------------
(* Properties *)

Returned == pc = "done" /\ result.tag \in {"Ok", "Err"}

Failed(kind) == pc = "done" /\ result.tag = "Err" /\ result.error.kind = kind

LoaderFound == host.load
InstanceCreated == LoaderFound /\ host.create = "SUCCESS"
Enumerated == InstanceCreated /\ host.enumerate = "SUCCESS"

\* C1: a call never returns an empty success sequence; when enumeration
\* succeeds with zero adapters the call fails with VulkanOperationFailed.
C1_NeverEmptySuccess ==
    /\ result.tag = "Ok" => Len(result.value) > 0
    /\ (pc = "done" /\ Enumerated /\ host.adapters = <<>>)
           => Failed("VulkanOperationFailed")

C1_Witness ==
    /\ pc = "done" /\ Enumerated /\ host.adapters = <<>>
    /\ physical_devices = <<>>
    /\ result.tag = "Err"

\* C2: when the call returns, no native handle it acquired is still live; an
\* instance that was created has been destroyed.
C2_HandlesReleasedAtReturn ==
    Returned =>
        /\ entry # "live"
        /\ instance # "live"
        /\ InstanceCreated => instance = "destroyed"

\* C3: the call fails with VulkanNotSupported exactly when loading failed; a
\* failed instance creation, a failed enumeration and an empty enumeration
\* each give VulkanOperationFailed, which is_vulkan_not_supported rejects.
C3_FailureKindByStage ==
    pc = "done" =>
        /\ (result.tag = "Err" /\ is_vulkan_not_supported(result.error)) <=> ~LoaderFound
        /\ Failed("VulkanNotSupported") <=> ~LoaderFound
        /\ (LoaderFound /\ ~InstanceCreated) => Failed("VulkanOperationFailed")
        /\ (InstanceCreated /\ ~Enumerated) => Failed("VulkanOperationFailed")
        /\ (Enumerated /\ host.adapters = <<>>) => Failed("VulkanOperationFailed")
        /\ Failed("VulkanOperationFailed") => ~is_vulkan_not_supported(result.error)

C3_Witness ==
    /\ Failed("VulkanOperationFailed")
    /\ InstanceCreated /\ ~Enumerated
    /\ ~is_vulkan_not_supported(result.error)

C5_OneRecordPerAdapterInOrder ==
    /\ pc = "loop" =>
           /\ Len(gpus) = idx - 1
           /\ \A i \in 1..Len(gpus) : gpus[i] = MakeGPU(host.adapters[physical_devices[i]])
    /\ result.tag = "Ok" =>
           /\ Len(result.value) = Len(host.adapters)
           /\ Len(result.value) = Len(physical_devices)
           /\ \A i \in 1..Len(result.value) :
                  result.value[i] = MakeGPU(host.adapters[physical_devices[i]])
           /\ host.adapters = <<IntelAdapter, BaseAdapter>> =>
                  /\ result.value[1].vendor = "Intel" /\ result.value[1].kind = "Integrated"
                  /\ result.value[2].vendor = "NVIDIA" /\ result.value[2].kind = "Discrete"

C5_Witness ==
    /\ result.tag = "Ok"
    /\ host.adapters = <<BaseAdapter, BaseAdapter>>
    /\ Len(result.value) = 2
    /\ result.value[1] = result.value[2]

\* The records built so far, with the raw properties each was built from.
Built == {<<host.adapters[physical_devices[i]], gpus[i]>> : i \in 1..Len(gpus)}

\* C6: in every record the name and the vendor are non-empty; a device-name
\* buffer that starts with NUL or holds invalid UTF-8 gives the name "Unknown".
C6_NameAndVendorNeverEmpty ==
    \A b \in Built :
        /\ b[2].name # <<>>
        /\ b[2].vendor # ""
        /\ b[1].device_name[1] = 0 => b[2].name = UnknownBytes
        /\ (HasNul(b[1].device_name) /\ ~Utf8Valid(CStrFromPtr(b[1].device_name)))
               => b[2].name = UnknownBytes

\* The exact quotient floor(S / 2^20) as <<top, mid>> (top unbounded), S being
\* the sum of the sizes of the device-local heaps among the first
\* memory_heap_count heaps.
CountedHeaps(p) ==
    {i \in 1..Len(p.memory_heaps) : i <= p.memory_heap_count /\ p.memory_heaps[i].flags % 2 = 1}

RECURSIVE LimbSum(_, _, _)
LimbSum(p, I, k) ==
    IF I = {} THEN 0
    ELSE LET i == CHOOSE j \in I : TRUE
         IN  p.memory_heaps[i].size[k] + LimbSum(p, I \ {i}, k)

ExactVram(p) ==
    LET T == LimbSum(p, CountedHeaps(p), 1)
        M == LimbSum(p, CountedHeaps(p), 2)
        L == LimbSum(p, CountedHeaps(p), 3)
        q == M + L \div (2 ^ 20)
    IN  <<T + q \div (2 ^ 22), q % (2 ^ 22)>>

\* C7: in every record vram is floor(S / 1048576), S the sum of the sizes of
\* the device-local heaps among the first memory_heap_count heaps.
C7_VramIsExactQuotient ==
    \A b \in Built : b[2].vram = ExactVram(b[1])

\* Reading a driver_version string back: its three dot-separated fields.
IsDigit(c) == c \in {"0", "1", "2", "3", "4", "5", "6", "7", "8", "9"}

DigitValue(c) == CHOOSE d \in 0..9 : Digit(d) = c

RECURSIVE ParseDecimal(_)
ParseDecimal(s) ==
    IF s = <<>> THEN 0 ELSE 10 * ParseDecimal(SubSeq(s, 1, Len(s) - 1)) + DigitValue(s[Len(s)])

Dots(s) == {i \in 1..Len(s) : s[i] = "."}

Canonical(s) ==
    /\ s # <<>>
    /\ \A i \in 1..Len(s) : IsDigit(s[i])
    /\ Len(s) > 1 => s[1] # "0"

\* C8: driver_version is "major.minor.patch" in decimal, where the packed
\* value is major * 2^22 + minor * 2^12 + patch with major, minor in 0..1023
\* and patch in 0..4095; (10 << 22) | (5 << 12) | 3 gives "10.5.3".
C8_DriverVersionDecode ==
    \A b \in Built :
        LET s == b[2].driver_version
            v == b[1].driver_version
        IN  /\ Cardinality(Dots(s)) = 2
            /\ LET d1 == CHOOSE i \in Dots(s) : \A j \in Dots(s) : i <= j
                   d2 == CHOOSE i \in Dots(s) : \A j \in Dots(s) : j <= i
                   f1 == SubSeq(s, 1, d1 - 1)
                   f2 == SubSeq(s, d1 + 1, d2 - 1)
                   f3 == SubSeq(s, d2 + 1, Len(s))
               IN  /\ Canonical(f1) /\ Canonical(f2) /\ Canonical(f3)
                   /\ LET major == ParseDecimal(f1)
                          minor == ParseDecimal(f2)
                          patch == ParseDecimal(f3)
                      IN  /\ major \in 0..1023
                          /\ minor \in 0..1023
                          /\ patch \in 0..4095
                          /\ v[1] = major * 64 + minor \div 16
                          /\ v[2] = (minor % 16) * 4096 + patch
            /\ v = <<10 * 64, 5 * 4096 + 3>> => s = <<"1", "0", ".", "5", ".", "3">>

C8_Witness ==
    /\ pc = "done" /\ result.tag = "Ok"
    /\ \E b \in Built :
           /\ b[1].driver_version = <<65535, 65535>>
           /\ b[2].driver_version = <<"1", "0", "2", "3", ".", "1", "0", "2", "3", ".",
                                      "4", "0", "9", "5">>

Hex4(a, b, c, d) == ((a * 16 + b) * 16 + c) * 16 + d

\* C9: vendor is "NVIDIA" for 0x10DE, "Intel" for 0x8086, "AMD" for 0x1002 and
\* "Unknown" for every other identifier.
C9_VendorMapping ==
    \A b \in Built :
        LET id == b[1].vendor_id
        IN  /\ id = Hex4(1, 0, 13, 14) => b[2].vendor = "NVIDIA"
            /\ id = Hex4(8, 0, 8, 6)   => b[2].vendor = "Intel"
            /\ id = Hex4(1, 0, 0, 2)   => b[2].vendor = "AMD"
            /\ id \notin {Hex4(1, 0, 13, 14), Hex4(8, 0, 8, 6), Hex4(1, 0, 0, 2)}
                   => b[2].vendor = "Unknown"

C9_Witness ==
    /\ pc = "done" /\ result.tag = "Ok"
    /\ \E b \in Built : b[1].vendor_id = Hex4(1, 0, 0, 2) /\ b[2].vendor = "AMD"

\* The native calls of a complete call on this host, in order.
RECURSIVE QueriesFor(_)
QueriesFor(devices) ==
    IF devices = <<>> THEN <<>>
    ELSE <<[fn |-> "get_physical_device_properties", device |-> Head(devices)],
           [fn |-> "get_physical_device_memory_properties", device |-> Head(devices)]>>
         \o QueriesFor(Tail(devices))

ExpectedCalls ==
    <<[fn |-> "Entry::load", device |-> 0]>>
    \o (IF LoaderFound THEN <<[fn |-> "create_instance", device |-> 0]>> ELSE <<>>)
    \o (IF InstanceCreated THEN <<[fn |-> "enumerate_physical_devices", device |-> 0]>>
        ELSE <<>>)
    \o (IF Enumerated THEN QueriesFor([i \in 1..Len(host.adapters) |-> i]) ELSE <<>>)

IsPrefix(s, t) == Len(s) <= Len(t) /\ s = SubSeq(t, 1, Len(s))

\* C10: the native calls made so far are always an initial part of: load,
\* create the instance if loading succeeded, enumerate if creation succeeded,
\* the two property queries per adapter in order if enumeration succeeded;
\* a call that returns has made exactly those calls, each once.
C10_StepsForwardOnce ==
    /\ IsPrefix(calls, ExpectedCalls)
    /\ Returned => calls = ExpectedCalls
    /\ \A i, j \in 1..Len(calls) : i # j => calls[i] # calls[j]

C10_Witness ==
    /\ Returned /\ InstanceCreated /\ ~Enumerated
    /\ host.adapters # <<>>
    /\ Len(calls) = 3

====
